---- MODULE Spec2Model ----
(***************************************************************************)
(* Model of MLB_Dyn_Ineligible_MiLB.py: the paginated statistics fetch     *)
(* (fetch_fangraphs_stats), the roster fetch, the mapping load, the        *)
(* reconciliation (find_ineligible_minors) and the result display of main. *)
(*                                                                         *)
(* Career statistics are fixed-point numbers in thousandths (50.049 is     *)
(* 50049), so that the threshold comparison and round(x, 1) are computed   *)
(* on integers.                                                            *)
(***************************************************************************)
EXTENDS Integers, Sequences, FiniteSets, TLC

\* ---------------------------------------------------------------- bounds
MaxPages   == 2     \* non-empty pages the remote source may hold per resource
MaxPageLen == 1     \* records on one page of the remote source
MaxEntries == 2     \* roster entries in a snapshot, over all teams

\* ------------------------------------------------------ program constants
page_size    == 200        \* pageitems
IP_THRESHOLD == 50000      \* 50 innings pitched, in thousandths
AB_THRESHOLD == 130000     \* 130 at bats, in thousandths
ERROR_PAGES  == 10         \* total_pages after a failed estimate request
EXTRA_PAGES  == 5          \* added to the page estimate

None == "None"             \* nothing rendered / nothing done yet

PlayerIds == {1, 2}
PlayerName(i) == IF i = 1 THEN "Player One" ELSE "Player Two"

\* ------------------------------------------------------------- variables
VARIABLES
    pc,               \* position in main / fetch_fangraphs_stats
    page,             \* local 'page' of fetch_fangraphs_stats
    total_pages,      \* local 'total_pages' of fetch_fangraphs_stats
    batting_stats,    \* dict playerid -> [name, career_AB]
    pitching_stats,   \* dict playerid -> [name, career_IP]
    remoteBat,        \* stats=bat pages of the remote source: <<>> until requested, then <<data>>
    remotePit,        \* stats=pit pages of the remote source
    batReq,           \* responses to the requests of the batting loop, in order
    pitReq,           \* responses to the requests of the pitching loop, in order
    st_errors,        \* messages passed to st.error
    rosters,          \* value returned by fetch_fantrax_rosters
    mapping_file,     \* rows of the mapping file as load_player_id_mapping found them
    id_mapping,       \* data frame returned by load_player_id_mapping
    team_i,           \* index of the team being iterated
    item_i,           \* index of the roster item being iterated
    ineligible_players,
    missing_players,
    origin,           \* for each violation, the <<team, item>> it was emitted for
    display,          \* what main has rendered
    firstResult       \* <<result>> of the first analysis once a second one has started

fetchVars == <<page, total_pages, batting_stats, pitching_stats,
               remoteBat, remotePit, batReq, pitReq>>
inputVars == <<rosters, mapping_file, id_mapping>>
loopVars  == <<team_i, item_i, ineligible_players, missing_players, origin>>
mainVars  == <<display, firstResult>>
vars == <<pc, fetchVars, st_errors, inputVars, loopVars, mainVars>>

\* ------------------------------------------------------------- utilities
SeqsUpTo(S, n) == UNION {[1..k -> S] : k \in 0..n}

\* math.ceil(a / b) for positive b
Ceil(a, b) == (a + b - 1) \div b

\* =========================================================================
\* fetch_fangraphs_stats
\* =========================================================================

\* Values of the AB / IP field of a remote record.
FetchAB == {50000, 62300}
FetchIP == {62300}

BatRecords == {[playerid |-> i, Name |-> PlayerName(i), AB |-> v] :
                  i \in PlayerIds, v \in FetchAB}
\* A pitching record may lack the 'IP' key.
PitRecords == {[playerid |-> i, Name |-> PlayerName(i), IP |-> v] :
                  i \in PlayerIds, v \in FetchIP}
              \cup {[playerid |-> i, Name |-> PlayerName(i)] : i \in PlayerIds}

\* The 'data' array of one response.
BatPages == SeqsUpTo(BatRecords, MaxPageLen)
PitPages == SeqsUpTo(PitRecords, MaxPageLen)

\* {} : a dict is a function whose domain is its set of keys
EmptyDict == <<>>

\* d[k] = v
DictPut(d, k, v) == [j \in DOMAIN d \cup {k} |-> IF j = k THEN v ELSE d[j]]

\* What a request for page p may return: the page the source holds (fixed
\* at the first request for it; empty past MaxPages), or a failure.
Served(remote, p, Pages) ==
    IF p > MaxPages THEN {<<>>}
    ELSE IF remote[p] = <<>> THEN Pages
    ELSE {remote[p][1]}

Learn(remote, p, data) ==
    IF p > MaxPages THEN remote ELSE [remote EXCEPT ![p] = <<data>>]

\* Faulty variant: each page replaces the index instead of adding to it.
StoreBattingReplacing(idx, data) ==
    [i \in {data[k].playerid : k \in 1..Len(data)} |->
        LET k == CHOOSE k \in 1..Len(data) :
                    /\ data[k].playerid = i
                    /\ \A j \in k + 1..Len(data) : data[j].playerid # i
        IN  [name |-> data[k].Name, career_AB |-> data[k].AB]]

\* for player in data['data']: batting_stats[player['playerid']] = {...}
RECURSIVE StoreBatting(_, _)
StoreBatting(idx, data) ==
    IF data = <<>> THEN idx
    ELSE StoreBatting(DictPut(idx, Head(data).playerid,
                          [name |-> Head(data).Name, career_AB |-> Head(data).AB]),
                      Tail(data))

\* player.get('IP', 0)
GetIP(player) == IF "IP" \in DOMAIN player THEN player.IP ELSE 0

RECURSIVE StorePitching(_, _)
StorePitching(idx, data) ==
    IF data = <<>> THEN idx
    ELSE StorePitching(DictPut(idx, Head(data).playerid,
                           [name |-> Head(data).Name, career_IP |-> GetIP(Head(data))]),
                       Tail(data))

\* total_pages = math.ceil(len(data['data']) / page_size) + 5
EstimatePages(data) == Ceil(Len(data), page_size) + EXTRA_PAGES

\* progress_bar.progress(min(page / total_pages, 1.0)) raises
\* ZeroDivisionError when total_pages is 0.
ProgressRaises(tp) == tp = 0

InitFetch ==
    /\ pc = "estimate"
    /\ page = 1
    /\ total_pages = 0
    /\ batting_stats = EmptyDict
    /\ pitching_stats = EmptyDict
    /\ remoteBat = [p \in 1..MaxPages |-> <<>>]
    /\ remotePit = [p \in 1..MaxPages |-> <<>>]
    /\ batReq = <<>>
    /\ pitReq = <<>>
    /\ st_errors = {}
    /\ rosters = [kind |-> "None"]
    /\ mapping_file = <<>>
    /\ id_mapping = <<>>
    /\ team_i = 1
    /\ item_i = 1
    /\ ineligible_players = <<>>
    /\ missing_players = {}
    /\ origin = <<>>
    /\ display = None
    /\ firstResult = <<>>

\* The request for page 1 that estimates the page count.
EstimateTotalPages ==
    /\ pc = "estimate"
    /\ \/ \E data \in Served(remoteBat, 1, BatPages) :
            /\ remoteBat' = Learn(remoteBat, 1, data)
            /\ total_pages' = IF data # <<>> THEN EstimatePages(data) ELSE total_pages
            /\ UNCHANGED st_errors
       \/ /\ total_pages' = ERROR_PAGES
          /\ st_errors' = st_errors \cup {[msg |-> "Error estimating pages", page |-> 1]}
          /\ UNCHANGED remoteBat
    /\ page' = 1
    /\ pc' = "bat_loop"
    /\ UNCHANGED <<batting_stats, pitching_stats, remotePit, batReq, pitReq>>
    /\ UNCHANGED <<inputVars, loopVars, mainVars>>

\* One iteration of the batting 'while True' loop; leaving it ends the
\* batting sequence.
FetchBattingPage ==
    /\ pc = "bat_loop"
    /\ \/ \E data \in Served(remoteBat, page, BatPages) :
            /\ remoteBat' = Learn(remoteBat, page, data)
            /\ batReq' = Append(batReq, [page |-> page, ok |-> TRUE, data |-> data])
            /\ IF data = <<>>
               THEN /\ pc' = "bat_done"
                    /\ UNCHANGED <<batting_stats, st_errors, page>>
               ELSE /\ batting_stats' = StoreBatting(batting_stats, data)
                    /\ page' = page + 1
                    /\ IF ProgressRaises(total_pages)
                       THEN /\ st_errors' = st_errors \cup
                                 {[msg |-> "Error fetching batting stats page",
                                   page |-> page + 1]}
                            /\ pc' = "bat_done"
                       ELSE /\ pc' = "bat_loop"
                            /\ UNCHANGED st_errors
       \/ /\ batReq' = Append(batReq, [page |-> page, ok |-> FALSE])
          /\ st_errors' = st_errors \cup
                 {[msg |-> "Error fetching batting stats page", page |-> page]}
          /\ pc' = "bat_done"
          /\ UNCHANGED <<batting_stats, remoteBat, page>>
    /\ UNCHANGED <<total_pages, pitching_stats, remotePit, pitReq>>
    /\ UNCHANGED <<inputVars, loopVars, mainVars>>

\* progress_bar.empty(); a new progress bar; page = 1.  No batting request
\* follows, so the batting resource and the record of its requests are
\* dropped from the state.
StartPitching ==
    /\ pc = "bat_done"
    /\ pc' = "pit_loop"
    /\ page' = 1
    /\ remoteBat' = [p \in 1..MaxPages |-> <<>>]
    /\ batReq' = <<>>
    /\ UNCHANGED <<total_pages, batting_stats, pitching_stats, remotePit, pitReq, st_errors>>
    /\ UNCHANGED <<inputVars, loopVars, mainVars>>

\* One iteration of the pitching 'while True' loop; leaving the loop
\* returns both indexes.
FetchPitchingPage ==
    /\ pc = "pit_loop"
    /\ \/ \E data \in Served(remotePit, page, PitPages) :
            /\ remotePit' = Learn(remotePit, page, data)
            /\ pitReq' = Append(pitReq, [page |-> page, ok |-> TRUE, data |-> data])
            /\ IF data = <<>>
               THEN /\ pc' = "fetch_return"
                    /\ UNCHANGED <<pitching_stats, st_errors, page>>
               ELSE /\ pitching_stats' = StorePitching(pitching_stats, data)
                    /\ page' = page + 1
                    /\ IF ProgressRaises(total_pages)
                       THEN /\ st_errors' = st_errors \cup
                                 {[msg |-> "Error fetching pitching stats page",
                                   page |-> page + 1]}
                            /\ pc' = "fetch_return"
                       ELSE /\ pc' = "pit_loop"
                            /\ UNCHANGED st_errors
       \/ /\ pitReq' = Append(pitReq, [page |-> page, ok |-> FALSE])
          /\ st_errors' = st_errors \cup
                 {[msg |-> "Error fetching pitching stats page", page |-> page]}
          /\ pc' = "fetch_return"
          /\ UNCHANGED <<pitching_stats, remotePit, page>>
    /\ UNCHANGED <<total_pages, batting_stats, remoteBat, batReq>>
    /\ UNCHANGED <<inputVars, loopVars, mainVars>>

\* return batting_stats, pitching_stats: main goes on to fetch the rosters;
\* the locals of fetch_fangraphs_stats are gone.
ReturnStats ==
    /\ pc = "fetch_return"
    /\ pc' = "fetch_rosters"
    /\ page' = 1
    /\ total_pages' = 0
    /\ remotePit' = [p \in 1..MaxPages |-> <<>>]
    /\ pitReq' = <<>>
    /\ UNCHANGED <<batting_stats, pitching_stats, remoteBat, batReq, st_errors>>
    /\ UNCHANGED <<inputVars, loopVars, mainVars>>

NextFetch ==
    \/ EstimateTotalPages
    \/ FetchBattingPage
    \/ StartPitching
    \/ FetchPitchingPage
    \/ ReturnStats

SpecFetch == InitFetch /\ [][NextFetch]_vars

\* =========================================================================
\* main: fetch_fantrax_rosters, load_player_id_mapping,
\* find_ineligible_minors, result display
\* =========================================================================

\* Text is a sequence of characters, so that parsing is computed.
Digits == {"0", "1", "2", "3", "4", "5", "6", "7", "8", "9"}
DigitValue(c) == CASE c = "0" -> 0 [] c = "1" -> 1 [] c = "2" -> 2 [] c = "3" -> 3
                   [] c = "4" -> 4 [] c = "5" -> 5 [] c = "6" -> 6 [] c = "7" -> 7
                   [] c = "8" -> 8 [] c = "9" -> 9

IsIntLiteral(s) == Len(s) > 0 /\ \A k \in 1..Len(s) : s[k] \in Digits

RECURSIVE DecimalValue(_)
DecimalValue(s) ==
    IF s = <<>> THEN 0
    ELSE 10 * DecimalValue(SubSeq(s, 1, Len(s) - 1)) + DigitValue(s[Len(s)])

\* Cells pandas.read_csv reads as NaN: its default NA strings ...
DefaultNAValues ==
    {<<>>,
     <<"#", "N", "/", "A">>,
     <<"#", "N", "/", "A", " ", "N", "/", "A">>,
     <<"#", "N", "A">>,
     <<"-", "1", ".", "#", "I", "N", "D">>,
     <<"-", "1", ".", "#", "Q", "N", "A", "N">>,
     <<"-", "N", "a", "N">>,
     <<"-", "n", "a", "n">>,
     <<"1", ".", "#", "I", "N", "D">>,
     <<"1", ".", "#", "Q", "N", "A", "N">>,
     <<"<", "N", "A", ">">>,
     <<"N", "/", "A">>,
     <<"N", "A">>,
     <<"N", "U", "L", "L">>,
     <<"N", "a", "N">>,
     <<"N", "o", "n", "e">>,
     <<"n", "/", "a">>,
     <<"n", "a", "n">>,
     <<"n", "u", "l", "l">>}
\* ... and na_values=['', 'nan', 'NaN', 'NULL', 'null']
GivenNAValues == {<<>>, <<"n", "a", "n">>, <<"N", "a", "N">>, <<"N", "U", "L", "L">>, <<"n", "u", "l", "l">>}
IsNACell(text) == text \in DefaultNAValues \cup GivenNAValues

\* ---- inputs
FantraxIds == {"f1", "f2"}
MappedIds  == {"f1"}                  \* keys the mapping file may hold
FantraxName(fid) == <<"Name", fid>>
Statuses   == {"MINORS", "ACTIVE"}
Positions  == {"SP", "OF"}
TeamIds    == <<"t2", "t1">>          \* keys of 'rosters', in the order received
TeamName(tid) == <<"Team", tid>>

\* IDFANGRAPHS cells of the mapping file: empty, "N/A", "sa1", "1"
Cells == {<<>>, <<"N", "/", "A">>, <<"s", "a", "1">>, <<"1">>}

\* The mapping file: no data row, or one row.
MappingFiles ==
    {<<>>} \cup {<<[Fantrax_ID |-> fid, FANTRAXNAME |-> FantraxName(fid), IDFANGRAPHS |-> c]>> :
                    fid \in MappedIds, c \in Cells}

\* Career totals in thousandths.
IPValues == {50000, 50049, 50060}
ABValues == {130000, 130100}
StatsPlayerIds == {1}

BattingIndexes ==
    {EmptyDict} \cup {DictPut(EmptyDict, i, [name |-> PlayerName(i), career_AB |-> v]) :
                         i \in StatsPlayerIds, v \in ABValues}
PitchingIndexes ==
    {EmptyDict} \cup {DictPut(EmptyDict, i, [name |-> PlayerName(i), career_IP |-> v]) :
                         i \in StatsPlayerIds, v \in IPValues}

Entries == [id : FantraxIds, status : Statuses, position : Positions]

\* The keys of the 'rosters' object: none, the first, or both.
TeamOrders == {SubSeq(TeamIds, 1, n) : n \in 0..Len(TeamIds)}

RECURSIVE SumSeq(_)
SumSeq(q) == IF q = <<>> THEN 0 ELSE Head(q) + SumSeq(Tail(q))

\* Number of roster items of each team of an order, MaxEntries in all.
Shapes(o) == {c \in [1..Len(o) -> 0..MaxEntries] : SumSeq(c) <= MaxEntries}

Offset(c, t) == SumSeq(SubSeq(c, 1, t - 1))

BuildRosters(o, c, flat) ==
    [t \in 1..Len(o) |->
        [teamId |-> o[t], teamName |-> TeamName(o[t]),
         rosterItems |-> [k \in 1..c[t] |-> flat[Offset(c, t) + k]]]]

RosterSnapshots ==
    UNION {UNION {{BuildRosters(o, c, flat) : flat \in [1..SumSeq(c) -> Entries]} :
                     c \in Shapes(o)} : o \in TeamOrders}

\* What response.json() of the roster request may be.
RosterResponses ==
    {[kind |-> "empty_object"], [kind |-> "no_rosters_key"]} \cup
    {[kind |-> "rosters", rosters |-> r] : r \in RosterSnapshots}

\* ---- load_player_id_mapping
\* read_csv infers a numeric column when every cell that is not NA is a number.
ColumnIsNumeric(file) ==
    \A k \in 1..Len(file) :
        IsNACell(file[k].IDFANGRAPHS) \/ IsIntLiteral(file[k].IDFANGRAPHS)

ReadCell(text, numeric) ==
    IF IsNACell(text) THEN [kind |-> "nan"]
    ELSE IF numeric THEN [kind |-> "num", v |-> DecimalValue(text)]
    ELSE [kind |-> "str", s |-> text]

ReadCsv(file) ==
    [k \in 1..Len(file) |->
        [Fantrax_ID |-> file[k].Fantrax_ID,
         FANTRAXNAME |-> file[k].FANTRAXNAME,
         IDFANGRAPHS |-> ReadCell(file[k].IDFANGRAPHS, ColumnIsNumeric(file))]]

\* ---- find_ineligible_minors
\* id_mapping[id_mapping['Fantrax_ID'] == fantrax_id]
PlayerRow(mapping, fantrax_id) ==
    SelectSeq(mapping, LAMBDA row : row.Fantrax_ID = fantrax_id)

\* pd.isna(raw) or raw == '' or raw is None
IsMissingId(raw) ==
    \/ raw.kind = "nan"
    \/ (raw.kind = "str" /\ raw.s = <<>>)

\* int(raw): <<n>>, or <<>> when it raises ValueError / TypeError
ToInt(raw) ==
    IF raw.kind = "num" THEN <<raw.v>>
    ELSE IF raw.kind = "str" /\ IsIntLiteral(raw.s) THEN <<DecimalValue(raw.s)>>
    ELSE <<>>

is_pitcher(position) == position \in {"SP", "RP", "P"}

\* stats.get('career_IP', 0) / stats.get('career_AB', 0)
CareerTotal(stats, pitcher) ==
    IF pitcher
    THEN (IF "career_IP" \in DOMAIN stats THEN stats.career_IP ELSE 0)
    ELSE (IF "career_AB" \in DOMAIN stats THEN stats.career_AB ELSE 0)

\* Faulty variant: the pitcher threshold is exclusive.
check_minors_eligibility_exclusive(stats, pitcher) ==
    IF pitcher
    THEN <<CareerTotal(stats, TRUE) < IP_THRESHOLD, CareerTotal(stats, TRUE)>>
    ELSE <<CareerTotal(stats, FALSE) <= AB_THRESHOLD, CareerTotal(stats, FALSE)>>

\* check_minors_eligibility: <<is_eligible, current_total>>
check_minors_eligibility(stats, pitcher) ==
    IF pitcher
    THEN <<CareerTotal(stats, TRUE) <= IP_THRESHOLD, CareerTotal(stats, TRUE)>>
    ELSE <<CareerTotal(stats, FALSE) <= AB_THRESHOLD, CareerTotal(stats, FALSE)>>

\* Faulty variant: the total is truncated to one decimal place.
Round1Truncating(x) == x \div 100

\* round(x, 1) of x thousandths, in tenths.  A decimal tie is rounded to
\* even, as Python does for a tie the float represents exactly; the input
\* sets hold no such value.
Round1(x) ==
    LET q == x \div 100
        r == x % 100
    IN  IF r < 50 THEN q
        ELSE IF r > 50 THEN q + 1
        ELSE IF q % 2 = 0 THEN q ELSE q + 1

\* Faulty variant: the two labels are exchanged.
ThresholdLabelSwapped(pitcher) == IF pitcher THEN "130 AB" ELSE "50 IP"

ThresholdLabel(pitcher) == IF pitcher THEN "50 IP" ELSE "130 AB"

\* What the loop body does for one roster item: the records it appends to
\* ineligible_players and the messages it adds to missing_players.
Nothing == [violations |-> <<>>, notes |-> {}]

\* Faulty variant: the status of the roster item is not looked at.
InMinorsSlotAlways(player) == TRUE

\* if player['status'] == 'MINORS':
InMinorsSlot(player) == player.status = "MINORS"

EntryOutcome(player, team_name, mapping, batting, pitching) ==
    IF ~InMinorsSlot(player) THEN Nothing
    ELSE
    LET player_row == PlayerRow(mapping, player.id) IN
    IF player_row = <<>>
    THEN [violations |-> <<>>,
          notes |-> {[msg |-> "Missing FanGraphs ID mapping for Fantrax ID", fantrax_id |-> player.id]}]
    ELSE
    LET fangraphs_id_raw == player_row[1].IDFANGRAPHS
        player_name      == player_row[1].FANTRAXNAME
    IN
    IF IsMissingId(fangraphs_id_raw)
    THEN [violations |-> <<>>,
          notes |-> {[msg |-> "No FanGraphs ID for Fantrax ID", fantrax_id |-> player.id]}]
    ELSE IF ToInt(fangraphs_id_raw) = <<>> THEN Nothing
    ELSE
    LET fangraphs_id == ToInt(fangraphs_id_raw)[1]
        pitcher      == is_pitcher(player.position)
        index        == IF pitcher THEN pitching ELSE batting
    IN
    IF fangraphs_id \notin DOMAIN index
    THEN [violations |-> <<>>,
          notes |-> {[msg |-> "No stats for", name |-> player_name, fangraphs_id |-> fangraphs_id]}]
    ELSE
    LET res == check_minors_eligibility(index[fangraphs_id], pitcher) IN
    IF res[1] THEN Nothing
    ELSE [violations |-> <<[Player        |-> player_name,
                            Position      |-> player.position,
                            Team          |-> team_name,
                            Current_Total |-> Round1(res[2]),
                            Threshold     |-> ThresholdLabel(pitcher)]>>,
          notes |-> {}]

\* ---- iteration over rosters['rosters'].items() and team_data['rosterItems']
Teams == rosters.rosters
Exhausted(t) == t > Len(Teams)

\* The first item at or after team t.
RECURSIVE FirstItemFrom(_, _)
FirstItemFrom(teams, t) ==
    IF t > Len(teams) THEN <<t, 1>>
    ELSE IF Len(teams[t].rosterItems) > 0 THEN <<t, 1>>
    ELSE FirstItemFrom(teams, t + 1)

NextItem(teams, t, i) ==
    IF i < Len(teams[t].rosterItems) THEN <<t, i + 1>> ELSE FirstItemFrom(teams, t + 1)

\* Faulty variant: new records are put in front.
EmitInFront(list, records) == records \o list

\* Append keeps the order in which records are emitted.
Emit(list, records) == list \o records

InitMain ==
    /\ pc = "fetch_rosters"
    /\ page = 1
    /\ total_pages = 0
    /\ batting_stats \in BattingIndexes
    /\ pitching_stats \in PitchingIndexes
    /\ remoteBat = [p \in 1..MaxPages |-> <<>>]
    /\ remotePit = [p \in 1..MaxPages |-> <<>>]
    /\ batReq = <<>>
    /\ pitReq = <<>>
    /\ st_errors = {}
    /\ rosters = [kind |-> "None"]
    /\ mapping_file = <<>>
    /\ id_mapping = <<>>
    /\ team_i = 1
    /\ item_i = 1
    /\ ineligible_players = <<>>
    /\ missing_players = {}
    /\ origin = <<>>
    /\ display = None
    /\ firstResult = <<>>

\* rosters = fetch_fantrax_rosters(league_id); if not rosters: return
FetchRosters ==
    /\ pc = "fetch_rosters"
    /\ \/ /\ rosters' = [kind |-> "None"]
          /\ st_errors' = st_errors \cup {[msg |-> "Error fetching Fantrax rosters"],
                                          [msg |-> "Failed to fetch rosters"]}
          /\ pc' = "aborted"
       \/ \E response \in RosterResponses :
            /\ rosters' = response
            /\ IF response.kind = "empty_object"
               THEN /\ st_errors' = st_errors \cup {[msg |-> "Failed to fetch rosters"]}
                    /\ pc' = "aborted"
               ELSE /\ pc' = "load_mapping"
                    /\ UNCHANGED st_errors
    /\ UNCHANGED <<fetchVars, mapping_file, id_mapping, loopVars, mainVars>>

\* id_mapping = load_player_id_mapping(file_path); if id_mapping.empty: return
LoadMapping ==
    /\ pc = "load_mapping"
    /\ \/ /\ id_mapping' = <<>>
          /\ st_errors' = st_errors \cup {[msg |-> "Error loading Player ID mapping file"],
                                          [msg |-> "Failed to load player mapping"]}
          /\ pc' = "aborted"
          /\ UNCHANGED mapping_file
       \/ \E file \in MappingFiles :
            /\ mapping_file' = file
            /\ id_mapping' = ReadCsv(file)
            /\ IF file = <<>>
               THEN /\ st_errors' = st_errors \cup {[msg |-> "Failed to load player mapping"]}
                    /\ pc' = "aborted"
               ELSE /\ pc' = "find_ineligible"
                    /\ UNCHANGED st_errors
    /\ UNCHANGED <<fetchVars, rosters, loopVars, mainVars>>

\* find_ineligible_minors is entered: fresh ineligible_players and
\* missing_players; 'rosters' not in rosters returns the empty list at once.
StartReconcile ==
    /\ pc = "find_ineligible"
    /\ ineligible_players' = <<>>
    /\ missing_players' = {}
    /\ origin' = <<>>
    /\ IF rosters.kind # "rosters"
       THEN /\ st_errors' = st_errors \cup {[msg |-> "Invalid roster data received"]}
            /\ pc' = "display"
            /\ UNCHANGED <<team_i, item_i>>
       ELSE /\ pc' = "reconcile"
            /\ team_i' = FirstItemFrom(Teams, 1)[1]
            /\ item_i' = FirstItemFrom(Teams, 1)[2]
            /\ UNCHANGED st_errors
    /\ UNCHANGED <<fetchVars, inputVars, mainVars>>

\* The body of the inner for loop, for the item at <<team_i, item_i>>.
ProcessEntry ==
    /\ pc = "reconcile"
    /\ ~Exhausted(team_i)
    /\ LET team_data == Teams[team_i]
           player    == team_data.rosterItems[item_i]
           out       == EntryOutcome(player, team_data.teamName, id_mapping,
                                     batting_stats, pitching_stats)
           next      == NextItem(Teams, team_i, item_i)
       IN  /\ ineligible_players' = Emit(ineligible_players, out.violations)
           /\ origin' = Emit(origin, [k \in 1..Len(out.violations) |-> <<team_i, item_i>>])
           /\ missing_players' = missing_players \cup out.notes
           /\ team_i' = next[1]
           /\ item_i' = next[2]
    /\ UNCHANGED <<pc, fetchVars, st_errors, inputVars, mainVars>>

\* The loops are over: the missing-player messages are shown and
\* ineligible_players is returned to main.
ReturnIneligible ==
    /\ pc = "reconcile"
    /\ Exhausted(team_i)
    /\ pc' = "display"
    /\ UNCHANGED <<fetchVars, st_errors, inputVars, loopVars, mainVars>>

\* if ineligible: the table ... else: st.success("No ineligible players found")
DisplayResults ==
    /\ pc = "display"
    /\ display' = IF ineligible_players # <<>> THEN "table" ELSE "none_found"
    /\ pc' = "done"
    /\ UNCHANGED <<fetchVars, st_errors, inputVars, loopVars, firstResult>>

\* The button is pressed again while the cached roster and the mapping file
\* are unchanged: find_ineligible_minors runs on the same arguments.
AnalyzeAgain ==
    /\ pc = "done"
    /\ firstResult = <<>>
    /\ firstResult' = <<ineligible_players>>
    /\ display' = None
    /\ pc' = "find_ineligible"
    /\ UNCHANGED <<fetchVars, st_errors, inputVars, loopVars>>

Init == InitMain

Next ==
    \/ FetchRosters
    \/ LoadMapping
    \/ StartReconcile
    \/ ProcessEntry
    \/ ReturnIneligible
    \/ DisplayResults
    \/ AnalyzeAgain

Spec == Init /\ [][Next]_vars

\* =========================================================================
\* Properties
\* =========================================================================

\* ---- the history of a reconciliation
HaveRosters == rosters.kind = "rosters"

Items ==
    IF HaveRosters
    THEN UNION {{<<t, i>> : i \in 1..Len(Teams[t].rosterItems)} : t \in 1..Len(Teams)}
    ELSE {}

\* The roster items the loops have been through.
Processed == {p \in Items : p[1] < team_i \/ (p[1] = team_i /\ p[2] < item_i)}

EntryAt(p) == Teams[p[1]].rosterItems[p[2]]

\* The violation records emitted for the item at p.
ViolationsFor(p) == {k \in 1..Len(origin) : origin[k] = p}

\* The IDFANGRAPHS cell of the item's row in the mapping file, <<>> if no row.
FileCell(fid) ==
    LET rows == {k \in 1..Len(mapping_file) : mapping_file[k].Fantrax_ID = fid}
    IN  IF rows = {} THEN <<>>
        ELSE <<mapping_file[CHOOSE k \in rows : \A j \in rows : k <= j].IDFANGRAPHS>>

\* The provider id the item's row resolves to, <<>> if none.
ResolvedId(fid) ==
    IF FileCell(fid) # <<>> /\ IsIntLiteral(FileCell(fid)[1])
    THEN <<DecimalValue(FileCell(fid)[1])>>
    ELSE <<>>

PitcherPositions == {"SP", "RP", "P"}

HasPitchingRecord(e) ==
    /\ e.position \in PitcherPositions
    /\ ResolvedId(e.id) # <<>>
    /\ ResolvedId(e.id)[1] \in DOMAIN pitching_stats

HasBattingRecord(e) ==
    /\ e.position \notin PitcherPositions
    /\ ResolvedId(e.id) # <<>>
    /\ ResolvedId(e.id)[1] \in DOMAIN batting_stats

CareerIP(e) == pitching_stats[ResolvedId(e.id)[1]].career_IP
CareerAB(e) == batting_stats[ResolvedId(e.id)[1]].career_AB

\* C1: a pitcher (SP, RP, P) whose career innings pitched is at most 50 never
\* gets a violation, whatever its status; with more than 50 and status MINORS
\* it gets a violation labelled "50 IP".
C1_PitcherThreshold ==
    \A p \in Processed :
        HasPitchingRecord(EntryAt(p)) =>
            /\ CareerIP(EntryAt(p)) <= 50000 => ViolationsFor(p) = {}
            /\ (CareerIP(EntryAt(p)) > 50000 /\ EntryAt(p).status = "MINORS") =>
                   \E k \in ViolationsFor(p) : ineligible_players[k].Threshold = "50 IP"

C1_Witness ==
    /\ pc = "done"
    /\ \E p \in Processed :
          /\ HasPitchingRecord(EntryAt(p))
          /\ EntryAt(p).status = "MINORS"
          /\ CareerIP(EntryAt(p)) > 50000
          /\ \E k \in ViolationsFor(p) : ineligible_players[k].Threshold = "50 IP"
    /\ \E p \in Processed :
          /\ HasPitchingRecord(EntryAt(p))
          /\ EntryAt(p).status = "ACTIVE"
          /\ ViolationsFor(p) = {}

\* C2: a MINORS batter that resolves to a batting record gets no violation
\* when the career count is at most 130 and exactly one violation, labelled
\* "130 AB", when it is more than 130.
C2_BatterThreshold ==
    \A p \in Processed :
        (HasBattingRecord(EntryAt(p)) /\ EntryAt(p).status = "MINORS") =>
            /\ CareerAB(EntryAt(p)) <= 130000 => ViolationsFor(p) = {}
            /\ CareerAB(EntryAt(p)) > 130000 =>
                   /\ Cardinality(ViolationsFor(p)) = 1
                   /\ \A k \in ViolationsFor(p) : ineligible_players[k].Threshold = "130 AB"

C2_Witness ==
    /\ pc = "done"
    /\ \E p \in Processed :
          /\ HasBattingRecord(EntryAt(p))
          /\ EntryAt(p).status = "MINORS"
          /\ CareerAB(EntryAt(p)) > 130000
          /\ Cardinality(ViolationsFor(p)) = 1
          /\ \A k \in ViolationsFor(p) : ineligible_players[k].Threshold = "130 AB"

\* C3: the loop body run on a roster item whose status is not MINORS adds no
\* violation record, no diagnostic note and no error message.
C3_NonMinorsSilent ==
    [][(/\ pc = "reconcile"
        /\ ~Exhausted(team_i)
        /\ EntryAt(<<team_i, item_i>>).status # "MINORS")
       => /\ ineligible_players' = ineligible_players
          /\ missing_players' = missing_players
          /\ st_errors' = st_errors]_vars

C3_Witness ==
    /\ pc = "done"
    /\ ineligible_players = <<>>
    /\ missing_players = {}
    /\ \E p \in Processed :
          /\ EntryAt(p).status # "MINORS"
          /\ HasPitchingRecord(EntryAt(p))
          /\ CareerIP(EntryAt(p)) > 50000
    /\ \E p \in Processed :
          /\ EntryAt(p).status # "MINORS"
          /\ FileCell(EntryAt(p).id) = <<>>

NotesAbout(fid) ==
    {n \in missing_players : "fantrax_id" \in DOMAIN n /\ n.fantrax_id = fid}

\* C4: for a MINORS item with a mapping row, a provider id that is present
\* but not an integer ("N/A") gives no note and no violation, and an empty
\* provider id gives the note "No FanGraphs ID for Fantrax ID: X" and no
\* violation.
C4_NonIntegerIdIsSilent ==
    \A p \in Processed :
        (EntryAt(p).status = "MINORS" /\ FileCell(EntryAt(p).id) # <<>>) =>
            LET cell == FileCell(EntryAt(p).id)[1] IN
            /\ (cell # <<>> /\ ~IsIntLiteral(cell)) =>
                   /\ NotesAbout(EntryAt(p).id) = {}
                   /\ ViolationsFor(p) = {}
            /\ cell = <<>> =>
                   /\ [msg |-> "No FanGraphs ID for Fantrax ID",
                       fantrax_id |-> EntryAt(p).id] \in missing_players
                   /\ ViolationsFor(p) = {}

\* C5: when the roster fetch errors or its response lacks the key 'rosters',
\* the run is aborted: the result display is never reached and neither "no
\* ineligible players found" nor a violation table is shown.
C5_BadRostersAbortRun ==
    (pc # "fetch_rosters" /\ rosters.kind \in {"None", "no_rosters_key"}) =>
        /\ pc \notin {"display", "done"}
        /\ display = None

\* ---- the history of a pagination sequence
AllOk(req) == \A k \in 1..Len(req) : req[k].ok

FailedLast(req) == Len(req) > 0 /\ ~req[Len(req)].ok

RECURSIVE RecordsOf(_, _)
\* The records of the first n responses of a sequence, in order.
RecordsOf(req, n) == IF n = 0 THEN <<>> ELSE RecordsOf(req, n - 1) \o req[n].data

\* The last record of each playerid.
LastOf(recs, i) ==
    recs[CHOOSE k \in 1..Len(recs) :
            /\ recs[k].playerid = i
            /\ \A j \in k + 1..Len(recs) : recs[j].playerid # i]

UnionBatting(recs) ==
    [i \in {recs[k].playerid : k \in 1..Len(recs)} |->
        [name |-> LastOf(recs, i).Name, career_AB |-> LastOf(recs, i).AB]]

UnionPitching(recs) ==
    [i \in {recs[k].playerid : k \in 1..Len(recs)} |->
        [name |-> LastOf(recs, i).Name,
         career_IP |-> IF "IP" \in DOMAIN LastOf(recs, i) THEN LastOf(recs, i).IP ELSE 0]]

InOrderUntilEmpty(req) ==
    \A k \in 1..Len(req) :
        /\ req[k].page = k
        /\ k < Len(req) => (req[k].ok /\ req[k].data # <<>>)

EndsOnEmptyPage(req) == Len(req) > 0 /\ req[Len(req)].ok /\ req[Len(req)].data = <<>>

\* C6: each sequence requests pages 1, 2, 3, ... and stops at the first empty
\* page; when no request fails it ends on the empty page k+1 and the index is
\* the union of pages 1..k by playerid, the last record of a playerid winning.
C6_PaginationUntilEmptyPage ==
    /\ InOrderUntilEmpty(batReq)
    /\ InOrderUntilEmpty(pitReq)
    /\ (pc = "bat_done" /\ AllOk(batReq)) =>
           /\ EndsOnEmptyPage(batReq)
           /\ batting_stats = UnionBatting(RecordsOf(batReq, Len(batReq) - 1))
    /\ (pc = "fetch_return" /\ AllOk(pitReq)) =>
           /\ EndsOnEmptyPage(pitReq)
           /\ pitching_stats = UnionPitching(RecordsOf(pitReq, Len(pitReq) - 1))

C7_State ==
    /\ \A k \in 1..Len(batReq) : ~batReq[k].ok => k = Len(batReq)
    /\ \A k \in 1..Len(pitReq) : ~pitReq[k].ok => k = Len(pitReq)
    /\ \A k \in 1..Len(batReq) : batReq[k].page = k
    /\ \A k \in 1..Len(pitReq) : pitReq[k].page = k
    /\ FailedLast(batReq) =>
           /\ pc = "bat_done"
           /\ batting_stats = UnionBatting(RecordsOf(batReq, Len(batReq) - 1))
    /\ FailedLast(pitReq) =>
           /\ pc = "fetch_return"
           /\ pitching_stats = UnionPitching(RecordsOf(pitReq, Len(pitReq) - 1))

C7_Step ==
    /\ pc \in {"bat_done", "pit_loop", "fetch_return"} => batting_stats' = batting_stats
    /\ pc = "fetch_return" => (pitching_stats' = pitching_stats /\ pc' = "fetch_rosters")

\* C7: a failed request for page n ends its sequence: page n is not requested
\* again and no later page is requested, the records of pages 1..n-1 stay in
\* the index, and both indexes are returned to main, which goes on to the
\* roster fetch.
C7_FailureKeepsPartialIndex == []C7_State /\ [][C7_Step]_vars

C7_Witness ==
    /\ pc = "fetch_rosters"
    /\ [msg |-> "Error fetching batting stats page", page |-> 3] \in st_errors
    /\ [msg |-> "Error fetching pitching stats page", page |-> 2] \in st_errors
    /\ Cardinality(DOMAIN batting_stats) = 2
    /\ Cardinality(DOMAIN pitching_stats) = 1

\* C8: the pitching sequence depends on the stats=pit responses only: it ends
\* on a failed pitching request or on an empty pitching page, whatever the
\* batting requests returned.
C8_PitchingIndependentOfBatting ==
    pc = "fetch_return" => (FailedLast(pitReq) \/ EndsOnEmptyPage(pitReq))

Lex(a, b) == a[1] < b[1] \/ (a[1] = b[1] /\ a[2] < b[2])

\* C9: the violations come in the order of the input (teams as received, then
\* items as received), and a second run on the same inputs returns the same
\* sequence.
C9_InputOrder ==
    /\ Len(origin) = Len(ineligible_players)
    /\ \A j, k \in 1..Len(origin) : j < k => Lex(origin[j], origin[k])
    /\ \A k \in 1..Len(origin) :
          /\ origin[k] \in Processed
          /\ ineligible_players[k].Team = Teams[origin[k][1]].teamName
          /\ ineligible_players[k].Position = EntryAt(origin[k]).position
          /\ ineligible_players[k].Player = FantraxName(EntryAt(origin[k]).id)
    /\ (firstResult # <<>> /\ pc \in {"display", "done"}) =>
           ineligible_players = firstResult[1]

C9_Witness ==
    /\ pc = "done"
    /\ firstResult # <<>>
    /\ Len(ineligible_players) = 2
    /\ ineligible_players[1].Team # ineligible_players[2].Team
    /\ ineligible_players[1].Position # ineligible_players[2].Position
    /\ origin = <<<<1, 1>>, <<2, 1>>>>

\* C10: the threshold is compared with the unrounded total and the reported
\* Current_Total is the total rounded to one decimal place: 50.049 innings
\* are reported as 50.0 and 50.06 innings as 50.1.
C10_RoundedReport ==
    \A p \in Processed :
        (HasPitchingRecord(EntryAt(p)) /\ EntryAt(p).status = "MINORS") =>
            /\ CareerIP(EntryAt(p)) = 50049 =>
                   /\ ViolationsFor(p) # {}
                   /\ \A k \in ViolationsFor(p) : ineligible_players[k].Current_Total = 500
            /\ CareerIP(EntryAt(p)) = 50060 =>
                   /\ ViolationsFor(p) # {}
                   /\ \A k \in ViolationsFor(p) : ineligible_players[k].Current_Total = 501
            /\ \A k \in ViolationsFor(p) :
                   /\ CareerIP(EntryAt(p)) > 50000
                   /\ 100 * ineligible_players[k].Current_Total - CareerIP(EntryAt(p)) \in -50..50

C10_Witness ==
    /\ pc = "done"
    /\ \E p \in Processed :
          /\ HasPitchingRecord(EntryAt(p))
          /\ CareerIP(EntryAt(p)) = 50060
          /\ \E k \in ViolationsFor(p) : ineligible_players[k].Current_Total = 501

====
